---- MODULE Spec2Model ----
(***************************************************************************)
(* A model of the support-ticket analysis backend (backend/app):          *)
(*   agent.py     the classifier and the two-node analysis graph          *)
(*   crud.py      the repository operations                               *)
(*   database.py  the three tables                                        *)
(*   main.py      the HTTP handlers                                       *)
(* Text is modelled by TLA+ strings, on which TLC evaluates Len, SubSeq   *)
(* and \o, so lower-casing, trimming and substring search are computed.   *)
(***************************************************************************)
EXTENDS Integers, Sequences, FiniteSets, TLC

VARIABLES
    OPENAI_API_KEY,    \* agent.py: the module-level credential, read once at import
    state,             \* agent.py: the AgentState the graph threads through its nodes
    node,              \* agent.py: the node of the graph that runs next
    it,                \* agent.py: analyze_tickets_node, tickets already iterated
    analysis_results,  \* agent.py: analyze_tickets_node, its local result list
    llm_calls,         \* agent.py: the replies llm.invoke gave, one per loop iteration
    tickets,           \* database.py: table tickets
    analysis_runs,     \* database.py: table analysis_runs
    ticket_analysis,   \* database.py: table ticket_analysis
    now,               \* the database server's clock, func.now()
    req,               \* main.py: the analyze_tickets requests in flight
    ret                \* the value the last repository call or handler returned

agentVars == <<OPENAI_API_KEY, state, node, it, analysis_results, llm_calls>>
storeVars == <<tickets, analysis_runs, ticket_analysis, now>>
vars == <<OPENAI_API_KEY, state, node, it, analysis_results, llm_calls,
          tickets, analysis_runs, ticket_analysis, now, req, ret>>

\* Python's None
None == "<None>"

\* ret after a step that returns nothing to look at
NoReturn == [handler |-> "none"]

(***************************************************************************)
(* Strings                                                                 *)
(***************************************************************************)

Min(a, b) == IF a < b THEN a ELSE b

\* str.lower() on one character (ASCII letters)
LowerChar(c) ==
    CASE c = "A" -> "a" [] c = "B" -> "b" [] c = "C" -> "c" [] c = "D" -> "d"
      [] c = "E" -> "e" [] c = "F" -> "f" [] c = "G" -> "g" [] c = "H" -> "h"
      [] c = "I" -> "i" [] c = "J" -> "j" [] c = "K" -> "k" [] c = "L" -> "l"
      [] c = "M" -> "m" [] c = "N" -> "n" [] c = "O" -> "o" [] c = "P" -> "p"
      [] c = "Q" -> "q" [] c = "R" -> "r" [] c = "S" -> "s" [] c = "T" -> "t"
      [] c = "U" -> "u" [] c = "V" -> "v" [] c = "W" -> "w" [] c = "X" -> "x"
      [] c = "Y" -> "y" [] c = "Z" -> "z" [] OTHER -> c

\* str.lower()
RECURSIVE Lower(_)
Lower(s) ==
    IF s = "" THEN ""
    ELSE LowerChar(SubSeq(s, 1, 1)) \o Lower(Tail(s))

\* str.strip(): leading and trailing blanks removed
RECURSIVE LStrip(_)
LStrip(s) ==
    IF Len(s) > 0 /\ SubSeq(s, 1, 1) = " " THEN LStrip(SubSeq(s, 2, Len(s))) ELSE s

RECURSIVE RStrip(_)
RStrip(s) ==
    IF Len(s) > 0 /\ SubSeq(s, Len(s), Len(s)) = " "
    THEN RStrip(SubSeq(s, 1, Len(s) - 1)) ELSE s

Strip(s) == LStrip(RStrip(s))

\* Python's `word in text` on strings: word occurs as a substring of text
Contains(text, word) ==
    \E t \in {text} :
        \E i \in 1..(Len(t) - Len(word) + 1) : SubSeq(t, i, i + Len(word) - 1) = word

\* any(word in text for word in words)
AnyWordIn(words, text) == \E k \in 1..Len(words) : Contains(text, words[k])

\* `x in list`
InList(x, list) == \E k \in 1..Len(list) : list[k] = x

(***************************************************************************)
(* agent.py: the keyword classifier                                        *)
(***************************************************************************)

billing_words   == <<"billing", "charge", "payment", "refund", "invoice", "subscription">>
bug_words       == <<"bug", "crash", "error", "broken", "not working", "issue">>
feature_words   == <<"feature", "request", "add", "would like", "suggest">>
account_words   == <<"login", "account", "access", "password", "authentication">>
technical_words == <<"technical", "server", "api", "integration">>

critical_words  == <<"critical", "urgent", "immediately", "emergency", "data loss">>
high_words      == <<"high", "important", "asap", "soon">>
low_words       == <<"low", "minor", "whenever">>

\* text = f"{title_lower} {desc_lower}"
mock_text(ticket) == Lower(ticket.title) \o " " \o Lower(ticket.description)

mock_category_swapped(text) ==
    IF AnyWordIn(bug_words, text) THEN "bug"
    ELSE IF AnyWordIn(billing_words, text) THEN "billing"
    ELSE IF AnyWordIn(feature_words, text) THEN "feature_request"
    ELSE IF AnyWordIn(account_words, text) THEN "account"
    ELSE IF AnyWordIn(technical_words, text) THEN "technical"
    ELSE "other"

\* the if/elif chain that determines the category
mock_category(text) ==
    IF AnyWordIn(billing_words, text) THEN "billing"
    ELSE IF AnyWordIn(bug_words, text) THEN "bug"
    ELSE IF AnyWordIn(feature_words, text) THEN "feature_request"
    ELSE IF AnyWordIn(account_words, text) THEN "account"
    ELSE IF AnyWordIn(technical_words, text) THEN "technical"
    ELSE "other"

mock_priority_high_first(text) ==
    IF AnyWordIn(high_words, text) THEN "high"
    ELSE IF AnyWordIn(critical_words, text) THEN "critical"
    ELSE IF AnyWordIn(low_words, text) THEN "low"
    ELSE "medium"

\* the if/elif chain that determines the priority
mock_priority(text) ==
    IF AnyWordIn(critical_words, text) THEN "critical"
    ELSE IF AnyWordIn(high_words, text) THEN "high"
    ELSE IF AnyWordIn(low_words, text) THEN "low"
    ELSE "medium"

mock_analyze_ticket(ticket) ==
    LET text     == mock_text(ticket)
        category == mock_category(text)
        priority == mock_priority(text)
    IN  [category |-> category,
         priority |-> priority,
         notes    |-> "Auto-categorized as " \o category \o " with " \o priority
                      \o " priority based on keywords."]

(***************************************************************************)
(* agent.py: the language-model classifier                                 *)
(***************************************************************************)

\* `if OPENAI_API_KEY:` holds for a non-empty string, fails for None and ""
Truthy(v) == v # None /\ v # ""

\* A value of the parsed reply: t is its JSON type ("absent" when the key is
\* missing from the object), v its text.
JAbsent == [t |-> "absent", v |-> ""]
JNull   == [t |-> "null", v |-> ""]
JNum(n) == [t |-> "num", v |-> n]
JStr(s) == [t |-> "str", v |-> s]

\* What llm.invoke(messages) can do: raise, or return a response whose content is
\*   wrap "plain"  : exactly the body
\*   wrap "fenced" : the body inside a ``` fence, possibly with prose around it
\*   wrap "prose"  : the body with prose around it and no fence
\* where the body is an object with the three keys (each possibly missing), a
\* JSON list, or text that is not JSON.
CategoryFields == {JAbsent, JNull, JNum("42"), JStr("billing"), JStr("Bug"),
                   JStr("spam"), JStr("technical")}
PriorityFields == {JAbsent, JNum("1"), JStr("HIGH"), JStr("urgent"), JStr("low")}
NotesFields    == {JAbsent, JNull, JStr("  card charged twice ")}
Wraps          == {"plain", "fenced", "prose"}

Content(wrap, kind, c, p, n) ==
    [raises |-> FALSE, wrap |-> wrap, kind |-> kind, category |-> c, priority |-> p, notes |-> n]

Raises == [raises |-> TRUE, wrap |-> "plain", kind |-> "garbage",
           category |-> JAbsent, priority |-> JAbsent, notes |-> JAbsent]

Replies ==
    {Raises}
    \cup {Content(w, k, JAbsent, JAbsent, JAbsent) : w \in Wraps, k \in {"garbage", "list"}}
    \cup {Content(w[1], "object", w[2], w[3], w[4]) :
            w \in Wraps \X CategoryFields \X PriorityFields \X NotesFields}

\* re.search(r'```(?:json)?\s*(\{.*?\})\s*```', content, re.DOTALL) and
\* content = json_match.group(1): a fenced {...} becomes the bare body
re_search_fence(content) ==
    IF content.wrap = "fenced" /\ content.kind = "object"
    THEN [content EXCEPT !.wrap = "plain"]
    ELSE content

\* json.loads(content) raises unless the content is exactly one JSON text
json_loads_raises(content) == content.wrap # "plain" \/ content.kind = "garbage"

valid_categories == <<"billing", "bug", "feature_request", "account", "technical", "other">>
valid_priorities == <<"low", "medium", "high", "critical">>

\* result.get(key, default) followed by a str method: only a str has .lower()/.strip()
get_raises(field) == field.t \notin {"absent", "str"}
get_value(field, default) == IF field.t = "absent" THEN default ELSE field.v

keep_category(category) == category

\* if category not in valid_categories: category = "other"
normalize_category(category) ==
    IF InList(category, valid_categories) THEN category ELSE "other"

\* if priority not in valid_priorities: priority = "medium"
normalize_priority(priority) ==
    IF InList(priority, valid_priorities) THEN priority ELSE "medium"

Returned(value) == [raise |-> "none", value |-> value]
Raised(exc)     == [raise |-> exc, value |-> [category |-> None, priority |-> None, notes |-> None]]

\* the body of the try block
try_body(ticket, reply) ==
    IF Truthy(OPENAI_API_KEY)
    THEN IF reply.raises THEN Raised("APIConnectionError")
         ELSE LET content == re_search_fence(reply)
              IN  IF json_loads_raises(content) THEN Raised("JSONDecodeError")
                  ELSE IF content.kind # "object" THEN Raised("AttributeError")
                  ELSE IF get_raises(content.category) THEN Raised("AttributeError")
                  ELSE IF get_raises(content.priority) THEN Raised("AttributeError")
                  ELSE IF get_raises(content.notes) THEN Raised("AttributeError")
                  ELSE Returned(
                         [category |-> normalize_category(Lower(get_value(content.category, "other"))),
                          priority |-> normalize_priority(Lower(get_value(content.priority, "medium"))),
                          notes    |-> Strip(get_value(content.notes, ""))])
    ELSE Returned(mock_analyze_ticket(ticket))

only_JSONDecodeError(exc) == exc = "JSONDecodeError"

\* `except Exception as e:` catches every exception the try block raises
except_Exception(exc) == exc # "none"

analyze_single_ticket(ticket, reply) ==
    LET r == try_body(ticket, reply)
    IN  IF r.raise = "none" THEN r
        ELSE IF except_Exception(r.raise) THEN Returned(mock_analyze_ticket(ticket))
        ELSE r

(***************************************************************************)
(* agent.py: the two nodes of the analysis graph                           *)
(***************************************************************************)

prepend_result(results, ticket, result) ==
    <<[ticket_id |-> ticket.id, category |-> result.category,
       priority |-> result.priority, notes |-> result.notes]>> \o results

\* analysis_results.append({"ticket_id": ticket.id, "category": ..., ...})
append_result(results, ticket, result) ==
    Append(results, [ticket_id |-> ticket.id, category |-> result.category,
                     priority |-> result.priority, notes |-> result.notes])

\* the loop calling the service again for the same ticket when a call raised
analyze_tickets_loop_retrying(replies) ==
    /\ node = "analyze_tickets"
    /\ it < Len(state.tickets)
    /\ \E reply \in replies :
         LET ticket == state.tickets[it + 1]
             r      == analyze_single_ticket(ticket, reply)
         IN  /\ llm_calls' = IF Truthy(OPENAI_API_KEY)
                             THEN Append(llm_calls, [ticket_id |-> ticket.id, reply |-> reply])
                             ELSE llm_calls
             /\ IF Truthy(OPENAI_API_KEY) /\ reply = Raises /\ Len(llm_calls) <= it
                THEN UNCHANGED <<analysis_results, it, node>>
                ELSE /\ analysis_results' = append_result(analysis_results, ticket, r.value)
                     /\ it' = it + 1
                     /\ node' = node
    /\ UNCHANGED <<OPENAI_API_KEY, state, storeVars, req, ret>>

\* One iteration of `for ticket in state['tickets']`; replies is what the
\* text-generation service may answer. An exception that analyze_single_ticket
\* lets through leaves the loop, the node and graph.invoke.
analyze_tickets_loop(replies) ==
    /\ node = "analyze_tickets"
    /\ it < Len(state.tickets)
    /\ \E reply \in replies :
         LET ticket == state.tickets[it + 1]
             r      == analyze_single_ticket(ticket, reply)
         IN  /\ llm_calls' = IF Truthy(OPENAI_API_KEY)
                             THEN Append(llm_calls, [ticket_id |-> ticket.id, reply |-> reply])
                             ELSE llm_calls
             /\ IF r.raise = "none"
                THEN /\ analysis_results' = append_result(analysis_results, ticket, r.value)
                     /\ it' = it + 1
                     /\ node' = node
                ELSE /\ node' = "raised"
                     /\ UNCHANGED <<analysis_results, it>>
    /\ UNCHANGED <<OPENAI_API_KEY, state, storeVars, req, ret>>

\* `response = llm.invoke(messages)` for the next ticket when the service never
\* answers: the call is made with no timeout (ChatOpenAI is built from model,
\* temperature and api_key only), so the loop stays inside it
llm_invoke_never_returns ==
    /\ node = "analyze_tickets"
    /\ it < Len(state.tickets)
    /\ Truthy(OPENAI_API_KEY)
    /\ node' = "llm.invoke"
    /\ UNCHANGED <<OPENAI_API_KEY, state, it, analysis_results, llm_calls, storeVars, req, ret>>

\* the classification node returning before the loop is exhausted
analyze_tickets_node_return_early ==
    /\ node = "analyze_tickets"
    /\ it <= Len(state.tickets)
    /\ state' = [state EXCEPT !.analysis_results = analysis_results]
    /\ node' = "generate_summary"
    /\ UNCHANGED <<OPENAI_API_KEY, it, analysis_results, llm_calls, storeVars, req, ret>>

\* The loop is exhausted: state['analysis_results'] = analysis_results; return state,
\* and the edge analyze_tickets -> generate_summary.
analyze_tickets_node_return ==
    /\ node = "analyze_tickets"
    /\ it = Len(state.tickets)
    /\ state' = [state EXCEPT !.analysis_results = analysis_results]
    /\ node' = "generate_summary"
    /\ UNCHANGED <<OPENAI_API_KEY, it, analysis_results, llm_calls, storeVars, req, ret>>

\* counts.get(key, 0) + 1 on a dict that puts a new key before the others
dict_increment_new_key_first(counts, key) ==
    IF \E k \in 1..Len(counts) : counts[k][1] = key
    THEN [k \in 1..Len(counts) |->
            IF counts[k][1] = key THEN <<key, counts[k][2] + 1>> ELSE counts[k]]
    ELSE <<<<key, 1>>>> \o counts

\* counts[key] = counts.get(key, 0) + 1 on a dict, which keeps its keys in
\* insertion order: a sequence of <<key, count>> pairs
dict_increment(counts, key) ==
    IF \E k \in 1..Len(counts) : counts[k][1] = key
    THEN [k \in 1..Len(counts) |->
            IF counts[k][1] = key THEN <<key, counts[k][2] + 1>> ELSE counts[k]]
    ELSE Append(counts, <<key, 1>>)

\* the counting loop over state['analysis_results'], for one of the two fields
RECURSIVE count_field(_, _, _)
count_field(results, field, counts) ==
    IF results = <<>> THEN counts
    ELSE count_field(Tail(results), field,
                     dict_increment(counts, IF field = "category" THEN Head(results).category
                                                                  ELSE Head(results).priority))

\* counts.get(key, 0)
dict_get(counts, key) ==
    IF \E k \in 1..Len(counts) : counts[k][1] = key
    THEN (CHOOSE pair \in {counts[k] : k \in 1..Len(counts)} : pair[1] = key)[2]
    ELSE 0

\* ', '.join(f'{k}({v})' for k, v in counts.items())
RECURSIVE join_counts(_)
join_counts(counts) ==
    IF counts = <<>> THEN ""
    ELSE Head(counts)[1] \o "(" \o ToString(Head(counts)[2]) \o ")"
         \o (IF Len(counts) > 1 THEN ", " ELSE "") \o join_counts(Tail(counts))

\* stands for the warning sign U+26A0 U+FE0F that opens the attention clause
WarningSign == "(!)"

\* generate_summary with the attention clause counting the critical results only
generate_summary_critical_only(results) ==
    IF results = <<>> THEN "No tickets analyzed."
    ELSE LET category_counts == count_field(results, "category", <<>>)
             priority_counts == count_field(results, "priority", <<>>)
             total_tickets   == Len(results)
             critical_count  == dict_get(priority_counts, "critical")
         IN  "Analyzed " \o ToString(total_tickets) \o " ticket(s)."
             \o " " \o "Categories: " \o join_counts(category_counts) \o "."
             \o " " \o "Priorities: " \o join_counts(priority_counts) \o "."
             \o (IF critical_count > 0
                 THEN " " \o WarningSign \o " " \o ToString(critical_count)
                      \o " ticket(s) require immediate attention."
                 ELSE "")

\* generate_summary without the early return on an empty result list
generate_summary_no_early_return(results) ==
    LET category_counts == count_field(results, "category", <<>>)
        priority_counts == count_field(results, "priority", <<>>)
        total_tickets   == Len(results)
        critical_count  == dict_get(priority_counts, "critical")
        high_count      == dict_get(priority_counts, "high")
    IN  "Analyzed " \o ToString(total_tickets) \o " ticket(s)."
        \o " " \o "Categories: " \o join_counts(category_counts) \o "."
        \o " " \o "Priorities: " \o join_counts(priority_counts) \o "."
        \o (IF critical_count > 0 \/ high_count > 0
            THEN " " \o WarningSign \o " " \o ToString(critical_count + high_count)
                 \o " ticket(s) require immediate attention."
            ELSE "")

\* the summary generate_summary_node stores for a result list
generate_summary(results) ==
    IF results = <<>> THEN "No tickets analyzed."
    ELSE LET category_counts == count_field(results, "category", <<>>)
             priority_counts == count_field(results, "priority", <<>>)
             total_tickets   == Len(results)
             critical_count  == dict_get(priority_counts, "critical")
             high_count      == dict_get(priority_counts, "high")
         IN  "Analyzed " \o ToString(total_tickets) \o " ticket(s)."
             \o " " \o "Categories: " \o join_counts(category_counts) \o "."
             \o " " \o "Priorities: " \o join_counts(priority_counts) \o "."
             \o (IF critical_count > 0 \/ high_count > 0
                 THEN " " \o WarningSign \o " " \o ToString(critical_count + high_count)
                      \o " ticket(s) require immediate attention."
                 ELSE "")

\* generate_summary_node, and the edge generate_summary -> END
generate_summary_node ==
    /\ node = "generate_summary"
    /\ state' = [state EXCEPT !.summary = generate_summary(state.analysis_results)]
    /\ node' = "END"
    /\ UNCHANGED <<OPENAI_API_KEY, it, analysis_results, llm_calls, storeVars, req, ret>>

\* analyze_tickets_with_agent(tickets, run_id): initial_state and the entry point
initial_state(ts, run_id) ==
    [tickets |-> ts, analysis_results |-> <<>>, summary |-> "", run_id |-> run_id]

(***************************************************************************)
(* The classifier on one ticket: every text of TicketTexts, every reply    *)
(***************************************************************************)

TicketTexts ==
    { [title |-> "Hello",                description |-> "General question"],
      [title |-> "Billing crash",        description |-> "App is broken after payment"],
      [title |-> "CRITICAL bug",         description |-> "High load error"],
      [title |-> "Please add dark mode", description |-> "Would like a feature, low priority"],
      [title |-> "Cannot login",         description |-> "Password reset is urgent"],
      [title |-> "Server down",          description |-> "API integration important"],
      [title |-> "Slow page",            description |-> "Address form"],
      [title |-> "Export is not",        description |-> "working today"],
      [title |-> "",                     description |-> ""],
      [title |-> "Account issue",        description |-> "Refund ASAP"],
      [title |-> "Rapid growth",         description |-> "whenever"] }

Keys == {None, "", "sk-test"}

Ticket(id, text, created_at) ==
    [id |-> id, title |-> text.title, description |-> text.description, created_at |-> created_at]

\* the store and the handlers, at rest
InitStore ==
    /\ tickets = <<>>
    /\ analysis_runs = <<>>
    /\ ticket_analysis = <<>>
    /\ now = 0
    /\ req = <<>>
    /\ ret = NoReturn

InitClassify ==
    /\ OPENAI_API_KEY \in Keys
    /\ \E text \in TicketTexts : state = initial_state(<<Ticket(1, text, 0)>>, 1)
    /\ node = "analyze_tickets"
    /\ it = 0
    /\ analysis_results = <<>>
    /\ llm_calls = <<>>
    /\ InitStore

NextClassify ==
    \/ analyze_tickets_loop(Replies)
    \/ analyze_tickets_node_return
    \/ generate_summary_node

SpecClassify == InitClassify /\ [][NextClassify]_vars

(***************************************************************************)
(* Claims about the classifier (SpecClassify)                              *)
(***************************************************************************)

\* the reply llm.invoke gave for the k-th ticket (the credential is set)
ReplyOf(k) == llm_calls[k].reply

\* the entry analyze_tickets_node stores when the classifier returns result
EntryOf(ticket, result) ==
    [ticket_id |-> ticket.id, category |-> result.category,
     priority |-> result.priority, notes |-> result.notes]

\* the reply is one JSON object, bare or inside a fence
ParsesAsObject(reply) ==
    ~reply.raises /\ reply.kind = "object" /\ reply.wrap \in {"plain", "fenced"}

\* a field of the object that is neither missing nor a string
Unusable(field) == field.t \in {"null", "num"}

\* the outcomes of the external call that C4 lists
ServiceFailed(k) ==
    \/ ~Truthy(OPENAI_API_KEY)
    \/ ReplyOf(k).raises
    \/ ~ParsesAsObject(ReplyOf(k))
    \/ Unusable(ReplyOf(k).category)
    \/ Unusable(ReplyOf(k).priority)
    \/ Unusable(ReplyOf(k).notes)

TheHeuristicEntry(k) == EntryOf(state.tickets[k], mock_analyze_ticket(state.tickets[k]))

\* C4: whatever the external call does (no credential, the call raises, the reply
\* is not one JSON object, a field of it is neither missing nor a string),
\* analyze_single_ticket raises nothing to the loop that called it, and its result
\* is the one mock_analyze_ticket gives for that ticket.
C4_FallbackToHeuristic ==
    /\ node # "raised"
    /\ \A k \in 1..Len(analysis_results) :
         ServiceFailed(k) => analysis_results[k] = TheHeuristicEntry(k)

\* a call with the credential set went wrong on a ticket the heuristic does not
\* classify other/medium, and the ticket has its heuristic result
C4_Witness ==
    /\ Truthy(OPENAI_API_KEY)
    /\ Len(analysis_results) = 1
    /\ ReplyOf(1).kind = "object" /\ ReplyOf(1).wrap = "plain"
    /\ ReplyOf(1).category = JStr("technical") /\ Unusable(ReplyOf(1).notes)
    /\ analysis_results[1].category = "billing"
    /\ analysis_results[1].priority = "high"

\* C5 as stated: when the reply parses as a JSON object and its category is
\* missing or any value other than the six categories, the category returned is
\* "other"; likewise the priority and "medium".
C5_Original ==
    \A k \in 1..Len(analysis_results) :
      (Truthy(OPENAI_API_KEY) /\ ParsesAsObject(ReplyOf(k))) =>
        /\ (ReplyOf(k).category.t = "absent"
              \/ ~(ReplyOf(k).category.t = "str" /\ InList(ReplyOf(k).category.v, valid_categories)))
           => analysis_results[k].category = "other"
        /\ (ReplyOf(k).priority.t = "absent"
              \/ ~(ReplyOf(k).priority.t = "str" /\ InList(ReplyOf(k).priority.v, valid_priorities)))
           => analysis_results[k].priority = "medium"

\* C5 as amended: when the reply parses as a JSON object whose category, priority
\* and notes are each missing or a string, a category that is missing or whose
\* lower-cased text is none of the six categories is returned as "other", and a
\* priority that is missing or whose lower-cased text is none of the four
\* priorities is returned as "medium".
C5_NormalizedToDefaults ==
    \A k \in 1..Len(analysis_results) :
      (/\ Truthy(OPENAI_API_KEY)
       /\ ParsesAsObject(ReplyOf(k))
       /\ ~Unusable(ReplyOf(k).category)
       /\ ~Unusable(ReplyOf(k).priority)
       /\ ~Unusable(ReplyOf(k).notes)) =>
        /\ (ReplyOf(k).category.t = "absent"
              \/ ~InList(Lower(ReplyOf(k).category.v), valid_categories))
           => analysis_results[k].category = "other"
        /\ (ReplyOf(k).priority.t = "absent"
              \/ ~InList(Lower(ReplyOf(k).priority.v), valid_priorities))
           => analysis_results[k].priority = "medium"

\* a fenced object with category "spam" and priority "urgent", for a ticket the
\* heuristic would classify billing/high, came back other/medium
C5_Witness ==
    /\ Truthy(OPENAI_API_KEY)
    /\ Len(analysis_results) = 1
    /\ ReplyOf(1) = Content("fenced", "object", JStr("spam"), JStr("urgent"), JAbsent)
    /\ mock_analyze_ticket(state.tickets[1]).category = "billing"
    /\ analysis_results[1].category = "other"
    /\ analysis_results[1].priority = "medium"

\* the k-th ticket was classified by mock_analyze_ticket
Heuristic(k) == ServiceFailed(k)

\* the lower-cased title and description, as the classifier joins them
TextOf(ticket) == Lower(ticket.title) \o " " \o Lower(ticket.description)

CategoryRules ==
    << <<"billing", billing_words>>, <<"bug", bug_words>>, <<"feature_request", feature_words>>,
       <<"account", account_words>>, <<"technical", technical_words>> >>

\* the rules with a keyword that occurs in the text
MatchingRules(text) ==
    {r \in 1..Len(CategoryRules) :
        \E w \in 1..Len(CategoryRules[r][2]) : Contains(text, CategoryRules[r][2][w])}

FirstRuleCategory(text) ==
    IF MatchingRules(text) = {} THEN "other"
    ELSE CategoryRules[CHOOSE r \in MatchingRules(text) :
                          \A q \in MatchingRules(text) : r <= q][1]

\* C9: the heuristic category is that of the first rule, in the order billing, bug,
\* feature_request, account, technical, with a keyword occurring in the lower-cased
\* text, "other" when no rule matches; a text with a billing keyword and a bug
\* keyword is billing.
C9_FirstMatchingRule ==
    \A k \in 1..Len(analysis_results) :
      Heuristic(k) =>
        LET text == TextOf(state.tickets[k])
        IN  /\ analysis_results[k].category = FirstRuleCategory(text)
            /\ ({1, 2} \subseteq MatchingRules(text) => analysis_results[k].category = "billing")

\* a text with a billing keyword and a bug keyword was classified, as billing
C9_Witness ==
    /\ Len(analysis_results) = 1
    /\ Heuristic(1)
    /\ {1, 2} \subseteq MatchingRules(TextOf(state.tickets[1]))
    /\ analysis_results[1].category = "billing"

PriorityRules ==
    << <<"critical", critical_words>>, <<"high", high_words>>, <<"low", low_words>> >>

Occurs(words, text) == \E w \in 1..Len(words) : Contains(text, words[w])

\* C10: the heuristic priority is critical if an urgency keyword occurs, otherwise
\* high if an importance keyword occurs, otherwise low if a deferability keyword
\* occurs, otherwise medium; a text with no keyword of any list is other/medium.
C10_PriorityOrder ==
    \A k \in 1..Len(analysis_results) :
      Heuristic(k) =>
        LET text == TextOf(state.tickets[k])
            p    == analysis_results[k].priority
        IN  /\ Occurs(critical_words, text) => p = "critical"
            /\ (~Occurs(critical_words, text) /\ Occurs(high_words, text)) => p = "high"
            /\ (~Occurs(critical_words, text) /\ ~Occurs(high_words, text)
                  /\ Occurs(low_words, text)) => p = "low"
            /\ (~Occurs(critical_words, text) /\ ~Occurs(high_words, text)
                  /\ ~Occurs(low_words, text)) => p = "medium"
            /\ (MatchingRules(text) = {} /\ \A r \in 1..Len(PriorityRules) :
                                               ~Occurs(PriorityRules[r][2], text))
               => (analysis_results[k].category = "other" /\ p = "medium")

\* a text with an urgency keyword and an importance keyword was classified, as critical
C10_Witness ==
    /\ Len(analysis_results) = 1
    /\ Heuristic(1)
    /\ Occurs(critical_words, TextOf(state.tickets[1]))
    /\ Occurs(high_words, TextOf(state.tickets[1]))
    /\ analysis_results[1].priority = "critical"

\* a text with no keyword at all was classified, as other/medium
C10_WitnessNeutral ==
    /\ Len(analysis_results) = 1
    /\ Heuristic(1)
    /\ state.tickets[1].title = "Hello"
    /\ analysis_results[1].category = "other"
    /\ analysis_results[1].priority = "medium"

(***************************************************************************)
(* The graph on a batch: every sequence of at most MaxTickets different    *)
(* tickets of AgentTickets, a few replies                                  *)
(***************************************************************************)

MaxTickets == 3

AgentTickets ==
    { Ticket(7, [title |-> "Billing crash", description |-> "App is broken after payment"], 1),
      Ticket(3, [title |-> "CRITICAL bug",  description |-> "High load error"], 1),
      Ticket(9, [title |-> "Hello",         description |-> "General question"], 2),
      Ticket(5, [title |-> "Slow page",     description |-> "Address form"], 3) }

AgentReplies ==
    { Raises,
      Content("plain", "object", JStr("Bug"), JStr("HIGH"), JStr("  card charged twice ")),
      Content("fenced", "object", JStr("spam"), JStr("low"), JAbsent) }

Injective(f) == \A a, b \in DOMAIN f : f[a] = f[b] => a = b

TicketSequences ==
    UNION { {ts \in [1..n -> AgentTickets] : Injective(ts)} : n \in 0..MaxTickets }

InitAgent ==
    /\ OPENAI_API_KEY \in {None, "sk-test"}
    /\ \E ts \in TicketSequences : state = initial_state(ts, 1)
    /\ node = "analyze_tickets"
    /\ it = 0
    /\ analysis_results = <<>>
    /\ llm_calls = <<>>
    /\ InitStore

NextAgent ==
    \/ analyze_tickets_loop(AgentReplies)
    \/ analyze_tickets_node_return
    \/ generate_summary_node

SpecAgent == InitAgent /\ [][NextAgent]_vars

\* analyze_tickets_node as a function of its tickets and of the reply the service
\* gives for each: the result list the loop builds (no exception gets through)
RECURSIVE analyze_tickets_node(_, _, _)
analyze_tickets_node(ts, replies, results) ==
    IF ts = <<>> THEN results
    ELSE analyze_tickets_node(
           Tail(ts), Tail(replies),
           append_result(results, Head(ts), analyze_single_ticket(Head(ts), Head(replies)).value))

(***************************************************************************)
(* Claims about the graph (SpecAgent)                                      *)
(***************************************************************************)

Perms(n) == {p \in [1..n -> 1..n] : Injective(p)}

Permuted(seq, p) == [k \in 1..Len(seq) |-> seq[p[k]]]

\* the reply given for each ticket of the run (any, when no call is made)
RepliesOfRun ==
    [k \in 1..Len(state.tickets) |->
        IF Truthy(OPENAI_API_KEY) /\ k <= Len(llm_calls) THEN llm_calls[k].reply ELSE Raises]

\* C8: the per-ticket output has one entry per input ticket, the i-th entry carries
\* the id of the i-th input ticket, and a permuted input gives the output permuted
\* the same way.
C8_OutputInInputOrder ==
    /\ \A k \in 1..Len(analysis_results) : analysis_results[k].ticket_id = state.tickets[k].id
    /\ node \in {"generate_summary", "END"} =>
         /\ Len(state.analysis_results) = Len(state.tickets)
         /\ \A k \in 1..Len(state.tickets) :
              state.analysis_results[k].ticket_id = state.tickets[k].id
         /\ state.analysis_results = analyze_tickets_node(state.tickets, RepliesOfRun, <<>>)
         /\ \A p \in Perms(Len(state.tickets)) :
              analyze_tickets_node(Permuted(state.tickets, p), Permuted(RepliesOfRun, p), <<>>)
                = Permuted(state.analysis_results, p)

\* a batch of three tickets whose ids are not in ascending order went through the
\* classification node
C8_Witness ==
    /\ node = "END"
    /\ Len(state.tickets) = 3
    /\ state.tickets[1].id = 9 /\ state.tickets[2].id = 3 /\ state.tickets[3].id = 7
    /\ Len(state.analysis_results) = 3
    /\ state.analysis_results[1].ticket_id = 9
    /\ state.analysis_results[3].ticket_id = 7

\* the empty batch went through the classification node
C8_WitnessEmpty ==
    node = "END" /\ state.tickets = <<>> /\ state.analysis_results = <<>>

\* the text every attention clause ends with
AttentionText == " ticket(s) require immediate attention."

\* the number of results whose priority is critical or high
UrgentCount(results) ==
    Cardinality({k \in 1..Len(results) : results[k].priority \in {"critical", "high"}})

\* the attention clause that states the count n, as it closes a summary
AttentionClause(n) == " " \o WarningSign \o " " \o ToString(n) \o AttentionText

EndsWith(str, suffix) ==
    /\ Len(suffix) <= Len(str)
    /\ SubSeq(str, Len(str) - Len(suffix) + 1, Len(str)) = suffix

\* C11: for a non-empty result list the summary contains the attention clause
\* exactly when critical plus high results number more than zero, and the clause
\* states that number.
C11_AttentionClause ==
    (node = "END" /\ state.analysis_results # <<>>) =>
        LET n == UrgentCount(state.analysis_results)
        IN  /\ Contains(state.summary, AttentionText) <=> n > 0
            /\ n > 0 => EndsWith(state.summary, AttentionClause(n))

\* a run with one critical, one high and one other result was summarized, and
\* its clause says 2
C11_Witness ==
    /\ node = "END"
    /\ Len(state.analysis_results) = 3
    /\ \E k \in 1..3 : state.analysis_results[k].priority = "critical"
    /\ \E k \in 1..3 : state.analysis_results[k].priority = "high"
    /\ UrgentCount(state.analysis_results) = 2
    /\ EndsWith(state.summary, AttentionClause(2))

\* a run without critical or high results was summarized, without the clause
C11_WitnessNoClause ==
    /\ node = "END"
    /\ state.analysis_results # <<>>
    /\ UrgentCount(state.analysis_results) = 0
    /\ ~Contains(state.summary, AttentionText)

\* C12: the run on an empty ticket sequence has an empty result list and the
\* summary "No tickets analyzed."; the run on a non-empty sequence never has
\* that summary.
C12_EmptyRunSummary ==
    node = "END" =>
        /\ state.tickets = <<>> =>
             state.analysis_results = <<>> /\ state.summary = "No tickets analyzed."
        /\ state.tickets # <<>> =>
             state.analysis_results # <<>> /\ state.summary # "No tickets analyzed."

\* the run on the empty ticket sequence reached the end with its summary
C12_Witness ==
    /\ node = "END"
    /\ state.tickets = <<>>
    /\ state.summary = "No tickets analyzed."

\* a run on two tickets reached the end with its summary
C12_WitnessNonEmpty ==
    /\ node = "END"
    /\ Len(state.tickets) = 2
    /\ state.summary # "No tickets analyzed."

(***************************************************************************)
(* crud.py: the repository operations on the three tables                  *)
(* A table is the sequence of its rows in the order they were inserted; a  *)
(* serial id is the row's position. created_at is the server default now().*)
(***************************************************************************)

\* A query without ORDER BY returns the rows in an order the database chooses.
ScanOrders(table) == {Permuted(table, p) : p \in Perms(Len(table))}

\* create_tickets persisting only the first row of a call
create_tickets_first_only(table, tickets_data, t) ==
    table \o [k \in 1..Min(1, Len(tickets_data)) |->
                [id |-> Len(table) + k, title |-> tickets_data[k].title,
                 description |-> tickets_data[k].description, created_at |-> t]]

\* create_tickets: db.add_all(tickets); db.commit(); the rows as refreshed
create_tickets(table, tickets_data, t) ==
    table \o [k \in 1..Len(tickets_data) |->
                [id |-> Len(table) + k, title |-> tickets_data[k].title,
                 description |-> tickets_data[k].description, created_at |-> t]]

\* get_tickets: db.query(Ticket).offset(skip).limit(limit).all(), on the rows as scanned
get_tickets(rows, skip, limit) == SubSeq(rows, skip + 1, Min(Len(rows), skip + limit))

\* get_tickets_by_ids returning one row for every requested id that exists, so a
\* ticket requested twice comes twice
get_tickets_by_ids_per_id(rows, ticket_ids) ==
    LET found == SelectSeq(ticket_ids, LAMBDA i : \E k \in 1..Len(rows) : rows[k].id = i)
    IN  [k \in 1..Len(found) |-> CHOOSE t \in {rows[j] : j \in 1..Len(rows)} : t.id = found[k]]

\* get_tickets_by_ids stopping at the first matching row
get_tickets_by_ids_first(rows, ticket_ids) ==
    LET found == SelectSeq(rows, LAMBDA t : InList(t.id, ticket_ids))
    IN  SubSeq(found, 1, Min(1, Len(found)))

\* get_tickets_by_ids: filter(Ticket.id.in_(ticket_ids)).all(), the matching rows
\* (the database chooses their order)
get_tickets_by_ids(rows, ticket_ids) == SelectSeq(rows, LAMBDA t : InList(t.id, ticket_ids))

\* create_analysis_run with an id that is not drawn from the table's sequence
create_analysis_run_fixed_id(table, summary, t) ==
    Append(table, [id |-> 1, created_at |-> t, summary |-> summary])

\* create_analysis_run: db.add(analysis_run); db.commit(); db.refresh(analysis_run)
create_analysis_run(table, summary, t) ==
    Append(table, [id |-> Len(table) + 1, created_at |-> t, summary |-> summary])

\* get_analysis_run / the query of update_analysis_run_summary: filter(id == run_id).first()
get_analysis_run(table, run_id) == SelectSeq(table, LAMBDA run : run.id = run_id)

\* update_analysis_run_summary without the filter on the run id
update_every_summary(table, run_id, summary) ==
    [k \in 1..Len(table) |-> [table[k] EXCEPT !.summary = summary]]

\* update_analysis_run_summary: analysis_run.summary = summary; db.commit(), when the run exists
update_analysis_run_summary(table, run_id, summary) ==
    [k \in 1..Len(table) |->
        IF table[k].id = run_id THEN [table[k] EXCEPT !.summary = summary] ELSE table[k]]

\* create_ticket_analyses: db.add_all(analyses); db.commit(); the rows as refreshed
create_ticket_analyses(table, analyses_data) ==
    table \o [k \in 1..Len(analyses_data) |->
                [id |-> Len(table) + k,
                 analysis_run_id |-> analyses_data[k].analysis_run_id,
                 ticket_id |-> analyses_data[k].ticket_id,
                 category |-> analyses_data[k].category,
                 priority |-> analyses_data[k].priority,
                 notes |-> analyses_data[k].notes]]

\* get_latest_analysis_run: order_by(desc(created_at)).first() leaves the choice among
\* the runs of greatest created_at to the database
latest_analysis_runs(table) ==
    {table[k] : k \in {j \in 1..Len(table) : \A i \in 1..Len(table) :
                                              table[i].created_at <= table[j].created_at}}

\* get_ticket_analyses_by_run_id and the second query of get_latest_analysis_with_tickets:
\* the matching rows (the database chooses their order)
get_ticket_analyses_by_run_id(rows, run_id) ==
    SelectSeq(rows, LAMBDA ta : ta.analysis_run_id = run_id)

(***************************************************************************)
(* main.py: the HTTP handlers                                              *)
(***************************************************************************)

MaxStoredTickets == 1
MaxRuns == 2
MaxTime == 1

\* crud.get_tickets(db, skip=0, limit=1000)
AnalyzeLimit == 1000

\* the two analyze requests that may be in flight together
Requests == {"r1", "r2"}

StoreTexts ==
    { [title |-> "Refund", description |-> "Charged twice, urgent"],
      [title |-> "Hello",  description |-> "General question"] }

\* bodies of POST /api/tickets
TicketsCreateRequests ==
    UNION { [1..n -> StoreTexts] : n \in 1..MaxStoredTickets }

\* bodies of POST /api/analyze: ticketIds omitted, or a list of at most two ids
AnalyzeRequests ==
    {[given |-> FALSE, ticket_ids |-> <<>>]}
    \cup {[given |-> TRUE, ticket_ids |-> ids] :
            ids \in UNION { [1..n -> 1..(MaxStoredTickets + 1)] : n \in 0..2 }}

\* a request slot: the handler's position, its request and its local variables
\* tickets and analysis_run
Idle == [pc |-> "idle", request |-> [given |-> FALSE, ticket_ids |-> <<>>], tickets |-> <<>>,
         analysis_run |-> 0]

\* the response of analyze_tickets, with the request it answers
Response(status, request, ts, analysis_run, ticket_analyses) ==
    [handler |-> "analyze", status |-> status, request |-> request, tickets |-> ts,
     analysis_run |-> analysis_run, ticket_analyses |-> ticket_analyses]

\* the database clock advances
Tick ==
    /\ now < MaxTime
    /\ now' = now + 1
    /\ ret' = NoReturn
    /\ UNCHANGED <<agentVars, tickets, analysis_runs, ticket_analysis, req>>

\* schemas.TicketsCreateRequest: every ticket has a title and a description that
\* are strings (`title: str`, `description: str`, no constraint on their length);
\* None stands for a field that is missing or not a string
validates(data) ==
    \A k \in 1..Len(data) : data[k].title # None /\ data[k].description # None

\* the response of create_tickets, with the request it answers
TicketsResponse(status, request, rows) ==
    [handler |-> "post_tickets", status |-> status, request |-> request, tickets |-> rows]

\* POST /api/tickets with a body of bodies, on a store of at most cap tickets:
\* 422 from the request validation, else crud.create_tickets and 201 with the
\* inserted rows, or 500 when its commit raises
api_create_tickets_on(bodies, cap) ==
    /\ \E data \in bodies, commit \in {"ok", "raises"} :
         LET status == IF ~validates(data) THEN 422
                       ELSE IF commit = "raises" THEN 500 ELSE 201
         IN  /\ status = 201 => Len(tickets) + Len(data) <= cap
             /\ status = 422 => commit = "ok"
             /\ tickets' = IF status = 201 THEN create_tickets(tickets, data, now) ELSE tickets
             /\ ret' = TicketsResponse(status, data,
                                       SubSeq(tickets', Len(tickets) + 1, Len(tickets')))
    /\ UNCHANGED <<agentVars, analysis_runs, ticket_analysis, now, req>>

\* POST /api/tickets with a valid body whose commit succeeds (the response is
\* not kept)
api_create_tickets ==
    /\ \E data \in TicketsCreateRequests :
         /\ Len(tickets) + Len(data) <= MaxStoredTickets
         /\ tickets' = create_tickets(tickets, data, now)
    /\ ret' = NoReturn
    /\ UNCHANGED <<agentVars, analysis_runs, ticket_analysis, now, req>>

\* the test `if request.ticket_ids is not None:`, which holds for []
ids_given_not_None(request) == request.given

\* `if request.ticket_ids:` holds for a non-empty list, fails for None and []
ids_given(request) == request.given /\ request.ticket_ids # <<>>

status_without_404(request, found) ==
    IF found = <<>> THEN 400 ELSE 0

\* the count comparison made against the number of different ids requested
status_by_distinct_ids(request, found) ==
    IF ids_given(request)
       /\ Len(found) # Cardinality({request.ticket_ids[k] : k \in 1..Len(request.ticket_ids)})
    THEN 404
    ELSE IF found = <<>> THEN 400
    ELSE 0

\* main.py 168-182: the status the handler raises for the tickets it found, 0 for none
resolve_status(request, found) ==
    IF ids_given(request) /\ Len(found) # Len(request.ticket_ids) THEN 404
    ELSE IF found = <<>> THEN 400
    ELSE 0

\* runs created or about to be
RunsStarted == Len(analysis_runs) + Cardinality({q \in Requests : req[q].pc = "create_run"})

\* POST /api/analyze, up to "Starting analysis": the tickets are read and checked,
\* and the request is answered 404 or 400 or goes on
api_analyze_resolve(r) ==
    /\ req[r].pc = "idle"
    /\ \E request \in AnalyzeRequests :
       \E found \in IF ids_given(request)
                    THEN ScanOrders(get_tickets_by_ids(tickets, request.ticket_ids))
                    ELSE {get_tickets(rows, 0, AnalyzeLimit) : rows \in ScanOrders(tickets)} :
         LET status == resolve_status(request, found)
         IN  IF status = 0
             THEN /\ RunsStarted < MaxRuns
                  /\ req' = [req EXCEPT ![r] = [pc |-> "create_run", request |-> request,
                                                tickets |-> found, analysis_run |-> 0]]
                  /\ ret' = NoReturn
             ELSE /\ req' = req
                  /\ ret' = Response(status, request, <<>>, 0, <<>>)
    /\ UNCHANGED <<agentVars, storeVars>>

\* analysis_run = crud.create_analysis_run(db, summary=None)
api_analyze_create_run(r) ==
    /\ req[r].pc = "create_run"
    /\ analysis_runs' = create_analysis_run(analysis_runs, None, now)
    /\ req' = [req EXCEPT ![r].pc = "create_analyses",
                          ![r].analysis_run = analysis_runs'[Len(analysis_runs')].id]
    /\ ret' = NoReturn
    /\ UNCHANGED <<agentVars, tickets, ticket_analysis, now>>

\* the commit of create_analysis_run raises: `except Exception` answers 500
api_analyze_create_run_fails(r) ==
    /\ req[r].pc = "create_run"
    /\ req' = [req EXCEPT ![r] = Idle]
    /\ ret' = Response(500, req[r].request, req[r].tickets, 0, <<>>)
    /\ UNCHANGED <<agentVars, storeVars>>

\* main.py 191-199: one record per ticket, category, priority and notes None
analyses_data(ts, analysis_run) ==
    [k \in 1..Len(ts) |->
        [analysis_run_id |-> analysis_run, ticket_id |-> ts[k].id,
         category |-> None, priority |-> None, notes |-> None]]

\* ticket_analyses = crud.create_ticket_analyses(db, analyses_data), and the 201 response
api_analyze_create_analyses(r) ==
    /\ req[r].pc = "create_analyses"
    /\ ticket_analysis' = create_ticket_analyses(ticket_analysis,
                                                 analyses_data(req[r].tickets, req[r].analysis_run))
    /\ req' = [req EXCEPT ![r] = Idle]
    /\ ret' = Response(201, req[r].request, req[r].tickets,
                       req[r].analysis_run,
                       [k \in 1..Len(req[r].tickets) |-> Len(ticket_analysis) + k])
    /\ UNCHANGED <<agentVars, tickets, analysis_runs, now>>

\* the commit of create_ticket_analyses raises: `except Exception` answers 500,
\* the run row committed before stays
api_analyze_create_analyses_fails(r) ==
    /\ req[r].pc = "create_analyses"
    /\ req' = [req EXCEPT ![r] = Idle]
    /\ ret' = Response(500, req[r].request, req[r].tickets,
                       req[r].analysis_run, <<>>)
    /\ UNCHANGED <<agentVars, storeVars>>

\* GET /api/analysis/latest
api_get_latest_analysis ==
    /\ IF analysis_runs = <<>>
       THEN ret' = [handler |-> "latest", status |-> 404, analysis_run |-> 0,
                    ticket_analyses |-> <<>>]
       ELSE \E run \in latest_analysis_runs(analysis_runs) :
              \E rows \in ScanOrders(get_ticket_analyses_by_run_id(ticket_analysis, run.id)) :
                ret' = [handler |-> "latest", status |-> 200, analysis_run |-> run.id,
                        ticket_analyses |-> rows]
    /\ UNCHANGED <<agentVars, storeVars, req>>

Init ==
    /\ OPENAI_API_KEY = None
    /\ state = initial_state(<<>>, 0)
    /\ node = "END"
    /\ it = 0
    /\ analysis_results = <<>>
    /\ llm_calls = <<>>
    /\ tickets = <<>>
    /\ analysis_runs = <<>>
    /\ ticket_analysis = <<>>
    /\ now = 0
    /\ req = [r \in Requests |-> Idle]
    /\ ret = NoReturn

\* The requests of Spec arrive within one tick of the database clock; SpecRepo
\* lets the clock advance.
Next ==
    \/ api_create_tickets
    \/ \E r \in Requests : api_analyze_resolve(r)
    \/ \E r \in Requests : api_analyze_create_run(r)
    \/ \E r \in Requests : api_analyze_create_run_fails(r)
    \/ \E r \in Requests : api_analyze_create_analyses(r)
    \/ \E r \in Requests : api_analyze_create_analyses_fails(r)
    \/ api_get_latest_analysis

Spec == Init /\ [][Next]_vars

(***************************************************************************)
(* The repository called directly, in any order, beside the handlers       *)
(***************************************************************************)

MaxAnalyses == 2

Summaries == {"A", "B"}

\* records for create_ticket_analyses: one or two, for any run id and ticket id
AnalysisRecords ==
    UNION { [1..n -> [analysis_run_id : 1..MaxRuns, ticket_id : 1..(MaxStoredTickets + 1),
                      category : {"bug"}, priority : {"high"}, notes : {None}]] : n \in 1..2 }

\* the foreign keys of database.py 58-59: the run and the ticket of a row exist
foreign_keys_hold(record) ==
    /\ \E k \in 1..Len(analysis_runs) : analysis_runs[k].id = record.analysis_run_id
    /\ \E k \in 1..Len(tickets) : tickets[k].id = record.ticket_id

repo_create_tickets ==
    /\ \E data \in TicketsCreateRequests :
         /\ Len(tickets) + Len(data) <= MaxStoredTickets
         /\ tickets' = create_tickets(tickets, data, now)
         /\ ret' = [handler |-> "create_tickets", rows |-> SubSeq(tickets', Len(tickets) + 1, Len(tickets'))]
    /\ UNCHANGED <<agentVars, analysis_runs, ticket_analysis, now, req>>

repo_create_analysis_run ==
    /\ Len(analysis_runs) < MaxRuns
    /\ \E summary \in {None} \cup Summaries :
         analysis_runs' = create_analysis_run(analysis_runs, summary, now)
    /\ ret' = [handler |-> "create_analysis_run", rows |-> <<analysis_runs'[Len(analysis_runs')]>>]
    /\ UNCHANGED <<agentVars, tickets, ticket_analysis, now, req>>

\* run_id may name no run: then nothing is written and None is returned
repo_update_analysis_run_summary ==
    /\ \E run_id \in 1..(MaxRuns + 1), summary \in Summaries :
         /\ analysis_runs' = IF get_analysis_run(analysis_runs, run_id) # <<>>
                             THEN update_analysis_run_summary(analysis_runs, run_id, summary)
                             ELSE analysis_runs
         /\ ret' = [handler |-> "update_analysis_run_summary", run_id |-> run_id,
                    rows |-> get_analysis_run(analysis_runs', run_id)]
    /\ UNCHANGED <<agentVars, tickets, ticket_analysis, now, req>>

\* a record that breaks a foreign key makes db.commit() raise, and nothing is inserted
repo_create_ticket_analyses ==
    /\ \E records \in AnalysisRecords :
         /\ Len(ticket_analysis) + Len(records) <= MaxAnalyses
         /\ IF \A k \in 1..Len(records) : foreign_keys_hold(records[k])
            THEN /\ ticket_analysis' = create_ticket_analyses(ticket_analysis, records)
                 /\ ret' = [handler |-> "create_ticket_analyses",
                            rows |-> SubSeq(ticket_analysis', Len(ticket_analysis) + 1,
                                            Len(ticket_analysis'))]
            ELSE /\ ticket_analysis' = ticket_analysis
                 /\ ret' = [handler |-> "IntegrityError", rows |-> <<>>]
    /\ UNCHANGED <<agentVars, tickets, analysis_runs, now, req>>

repo_get_latest_analysis_run ==
    /\ IF analysis_runs = <<>>
       THEN ret' = [handler |-> "get_latest_analysis_run", rows |-> <<>>]
       ELSE \E run \in latest_analysis_runs(analysis_runs) :
              ret' = [handler |-> "get_latest_analysis_run", rows |-> <<run>>]
    /\ UNCHANGED <<agentVars, storeVars, req>>

\* one analyze request at a time runs beside the direct calls
NextRepo ==
    \/ Tick
    \/ repo_create_tickets
    \/ repo_create_analysis_run
    \/ repo_update_analysis_run_summary
    \/ repo_create_ticket_analyses
    \/ repo_get_latest_analysis_run
    \/ api_analyze_resolve("r1")
    \/ api_analyze_create_run("r1")
    \/ api_analyze_create_run_fails("r1")
    \/ api_analyze_create_analyses("r1")
    \/ api_analyze_create_analyses_fails("r1")

SpecRepo == Init /\ [][NextRepo]_vars

(***************************************************************************)
(* Claims about the handlers (Spec) and the repository (SpecRepo)          *)
(***************************************************************************)

\* the last step answered a POST /api/analyze with this status
AnalyzeAnswered(status) == ret.handler = "analyze" /\ ret.status = status

\* the row of a table with this id
RowOf(table, id) == table[CHOOSE k \in 1..Len(table) : table[k].id = id]

Categories == {"billing", "bug", "feature_request", "account", "technical", "other"}
Priorities == {"low", "medium", "high", "critical"}

\* C1: after a POST /api/analyze answered 201, every TicketAnalysis row the request
\* persisted has a category among the six and a priority among the four, none null.
C1_PersistedRowsClassified ==
    AnalyzeAnswered(201) =>
      \A k \in 1..Len(ret.ticket_analyses) :
        /\ RowOf(ticket_analysis, ret.ticket_analyses[k]).category \in Categories
        /\ RowOf(ticket_analysis, ret.ticket_analyses[k]).priority \in Priorities

\* what the graph gives for these tickets when no credential is configured
PipelineResults(ts) == analyze_tickets_node(ts, [k \in 1..Len(ts) |-> Raises], <<>>)
PipelineSummary(ts) == generate_summary(PipelineResults(ts))

\* C2: when a POST /api/analyze is answered 201, the run it created has the summary
\* the summarization stage computes over the request's tickets; a run's summary is
\* null only while the request that created it is in progress.
C2_RunHasPipelineSummary ==
    /\ AnalyzeAnswered(201) =>
         RowOf(analysis_runs, ret.analysis_run).summary = PipelineSummary(ret.tickets)
    /\ \A k \in 1..Len(analysis_runs) :
         analysis_runs[k].summary = None =>
           \E r \in Requests : req[r].pc = "create_analyses"
                               /\ req[r].analysis_run = analysis_runs[k].id

TicketIds == {tickets[k].id : k \in 1..Len(tickets)}

\* C3: a POST /api/analyze answered 404 or 400 has written nothing: the step that
\* answers leaves the three tables as they were and the request has no run and no
\* analyses; and no request naming an id that is not stored, or resolving to no
\* ticket, gets past the check.
C3_RejectedRequestWritesNothing ==
    [][ /\ (ret'.handler = "analyze" /\ ret'.status \in {400, 404}) =>
              /\ tickets' = tickets
              /\ analysis_runs' = analysis_runs
              /\ ticket_analysis' = ticket_analysis
              /\ ret'.analysis_run = 0
              /\ ret'.ticket_analyses = <<>>
              /\ req' = req
        /\ \A r \in Requests :
              (req[r].pc = "idle" /\ req'[r].pc = "create_run") =>
                /\ req'[r].tickets # <<>>
                /\ ids_given(req'[r].request) =>
                     \A k \in 1..Len(req'[r].request.ticket_ids) :
                        req'[r].request.ticket_ids[k] \in TicketIds
      ]_vars

\* a request for the stored ticket 1 and the unknown ticket 2 was answered 404, and
\* there is no run and no analysis
C3_Witness ==
    /\ AnalyzeAnswered(404)
    /\ ret.request.ticket_ids = <<1, 2>>
    /\ TicketIds = {1}
    /\ analysis_runs = <<>>
    /\ ticket_analysis = <<>>

\* a request without ticketIds on an empty store was answered 400
C3_Witness400 ==
    /\ AnalyzeAnswered(400)
    /\ ~ret.request.given
    /\ tickets = <<>>
    /\ analysis_runs = <<>>
    /\ ticket_analysis = <<>>

\* the rows of ticket_analysis for a run and a ticket
RowsFor(run_id, ticket_id) ==
    {k \in 1..Len(ticket_analysis) :
        ticket_analysis[k].analysis_run_id = run_id /\ ticket_analysis[k].ticket_id = ticket_id}

\* C6: in every committed state each AnalysisRun row comes with one TicketAnalysis
\* row for every ticket of its request: no run is in the store, or returned by
\* GET /api/analysis/latest, with none or only some of its analyses.
C6_RunComesWithItsAnalyses ==
    /\ \A k \in 1..Len(analysis_runs) :
         \E j \in 1..Len(ticket_analysis) :
            ticket_analysis[j].analysis_run_id = analysis_runs[k].id
    /\ \A r \in Requests :
         req[r].analysis_run # 0 =>
           \A k \in 1..Len(req[r].tickets) :
              Cardinality(RowsFor(req[r].analysis_run, req[r].tickets[k].id)) = 1
    /\ (ret.handler = "latest" /\ ret.status = 200) => ret.ticket_analyses # <<>>
    /\ (ret.handler = "analyze" /\ ret.analysis_run # 0) =>
         \A k \in 1..Len(ret.tickets) :
            Cardinality(RowsFor(ret.analysis_run, ret.tickets[k].id)) = 1

\* C7: once the summary of a run is not null, no step sets it back to null or
\* replaces it by another value.
C7_SummaryWrittenOnce ==
    [][ \A k \in 1..Len(analysis_runs) :
          analysis_runs[k].summary # None =>
            analysis_runs'[k].summary = analysis_runs[k].summary ]_vars

\* run a is later than run b: by created_at, and by id among equal created_at
Later(a, b) ==
    \/ a.created_at > b.created_at
    \/ a.created_at = b.created_at /\ a.id > b.id

\* C13: whenever the store holds a run, get_latest_analysis_run returns the run
\* of greatest created_at and, among the runs of equal created_at, the one of
\* greatest id (so the second of two runs created at the same time).
C13_LatestRunTieBrokenById ==
    (ret.handler = "get_latest_analysis_run" /\ analysis_runs # <<>>) =>
        /\ Len(ret.rows) = 1
        /\ \A k \in 1..Len(analysis_runs) :
             analysis_runs[k] = ret.rows[1] \/ Later(ret.rows[1], analysis_runs[k])

\* C14: for every run and every ticket the store holds at most one TicketAnalysis
\* row with that run id and that ticket id (the handlers being the only writers);
\* one ticket may have rows in several runs.
C14_OneRowPerRunAndTicket ==
    \A a, b \in 1..Len(ticket_analysis) :
        ( /\ ticket_analysis[a].analysis_run_id = ticket_analysis[b].analysis_run_id
          /\ ticket_analysis[a].ticket_id = ticket_analysis[b].ticket_id ) => a = b

\* two completed runs each hold a row for ticket 1
C14_Witness ==
    \E a, b \in 1..Len(ticket_analysis) :
        /\ ticket_analysis[a].ticket_id = 1 /\ ticket_analysis[b].ticket_id = 1
        /\ ticket_analysis[a].analysis_run_id = 1 /\ ticket_analysis[b].analysis_run_id = 2

\* a request naming ticket 1 twice was answered 404
C14_WitnessDuplicateIds ==
    /\ ret.handler = "analyze"
    /\ ret.status = 404
    /\ ret.request.ticket_ids = <<1, 1>>
    /\ Len(tickets) = 1

\* the step is request r's commit of its run row
CreatesRun(r) == req[r].pc = "create_run" /\ req'[r].pc = "create_analyses"

\* the step is request r's commit of its ticket analyses
CreatesAnalyses(r) == req[r].pc = "create_analyses" /\ req'[r].pc = "idle"
                      /\ ticket_analysis' # ticket_analysis

\* C15: in every interleaving of two POST /api/analyze requests, each request
\* creates a run row of its own with an id no other row and no other request
\* has, the TicketAnalysis rows a request writes carry the id of its own run,
\* and no step rewrites a run row that exists.
C15_RequestsKeepToTheirRun ==
    [][ /\ Len(analysis_runs') >= Len(analysis_runs)
        /\ \A k \in 1..Len(analysis_runs) : analysis_runs'[k] = analysis_runs[k]
        /\ Len(analysis_runs') > Len(analysis_runs) =>
             \E r \in Requests :
                /\ CreatesRun(r)
                /\ Len(analysis_runs') = Len(analysis_runs) + 1
                /\ req'[r].analysis_run = analysis_runs'[Len(analysis_runs')].id
                /\ \A k \in 1..Len(analysis_runs) : analysis_runs[k].id # req'[r].analysis_run
                /\ \A q \in Requests \ {r} : req'[q].analysis_run # req'[r].analysis_run
        /\ ticket_analysis' # ticket_analysis =>
             \E r \in Requests :
                /\ CreatesAnalyses(r)
                /\ \A q \in Requests \ {r} : req[q].analysis_run # req[r].analysis_run
                /\ Len(ticket_analysis') = Len(ticket_analysis) + Len(req[r].tickets)
                /\ \A k \in 1..Len(ticket_analysis') :
                     IF k <= Len(ticket_analysis)
                     THEN ticket_analysis'[k] = ticket_analysis[k]
                     ELSE ticket_analysis'[k].analysis_run_id = req[r].analysis_run
      ]_vars

\* the two requests overlapped: the request that created run 2 wrote its rows
\* before the request that created run 1
C15_Witness ==
    /\ Len(analysis_runs) = 2
    /\ analysis_runs[1].id # analysis_runs[2].id
    /\ Len(ticket_analysis) = 2
    /\ ticket_analysis[1].analysis_run_id = 2
    /\ ticket_analysis[2].analysis_run_id = 1

(***************************************************************************)
(* The ticket endpoints with every body a client may send, on a store of   *)
(* up to MaxPosted tickets                                                 *)
(***************************************************************************)

MaxPosted == 2
MaxSkip == 1
MaxLimit == 2

\* title and description as a client may send them: text, the empty string, or
\* a missing field
PostedTexts ==
    { [title |-> "Refund", description |-> "Charged twice"],
      [title |-> "",       description |-> "Charged twice"],
      [title |-> "Refund", description |-> ""],
      [title |-> None,     description |-> "Charged twice"] }

\* bodies of POST /api/tickets: a list of up to two tickets
PostedBodies == UNION { [1..n -> PostedTexts] : n \in 0..2 }

\* GET /api/tickets?skip=..&limit=..: crud.get_tickets on the rows as scanned
api_get_tickets ==
    /\ \E skip \in 0..MaxSkip, limit \in 1..MaxLimit, rows \in ScanOrders(tickets) :
         ret' = [handler |-> "get_tickets", status |-> 200, skip |-> skip, limit |-> limit,
                 tickets |-> get_tickets(rows, skip, limit)]
    /\ UNCHANGED <<agentVars, storeVars, req>>

NextTickets ==
    \/ Tick
    \/ api_create_tickets_on(PostedBodies, MaxPosted)
    \/ api_get_tickets

SpecTickets == Init /\ [][NextTickets]_vars

\* C16: every stored ticket has a non-empty title and a non-empty description,
\* and a POST /api/tickets request with an empty title or description in any of
\* its tickets persists no ticket and is answered with a 4xx status (unless the
\* store fails first, which is a 500).
C16_TicketsHaveTitleAndDescription ==
    /\ \A k \in 1..Len(tickets) : tickets[k].title # "" /\ tickets[k].description # ""
    /\ ( /\ ret.handler = "post_tickets"
         /\ \E k \in 1..Len(ret.request) :
               ret.request[k].title = "" \/ ret.request[k].description = "" )
       => (ret.tickets = <<>> /\ (ret.status # 500 => ret.status \in 400..499))

\* the ids of the rows of a result
IdsOf(rows) == {rows[k].id : k \in 1..Len(rows)}

\* C17: crud.get_tickets(db, skip=0, limit=n), the call by which analyze_tickets
\* resolves omitted ticketIds (with n = 1000), returns all stored tickets when
\* there are at most n of them, and otherwise exactly n tickets none of which is
\* older than a ticket left out.
C17_LimitKeepsMostRecent ==
    (ret.handler = "get_tickets" /\ ret.skip = 0) =>
        IF Len(tickets) <= ret.limit
        THEN IdsOf(ret.tickets) = IdsOf(tickets)
        ELSE /\ Cardinality(IdsOf(ret.tickets)) = ret.limit
             /\ \A k \in 1..Len(ret.tickets), j \in 1..Len(tickets) :
                  tickets[j].id \notin IdsOf(ret.tickets) =>
                     ret.tickets[k].created_at >= tickets[j].created_at

(***************************************************************************)
(* The two bulk inserts: POST /api/tickets with bodies of up to two        *)
(* tickets, and one analysis over the tickets stored                       *)
(***************************************************************************)

NextBulk ==
    \/ api_create_tickets_on(PostedBodies, MaxPosted)
    \/ analysis_runs = <<>> /\ api_analyze_resolve("r1")
    \/ api_analyze_create_run("r1")
    \/ api_analyze_create_run_fails("r1")
    \/ api_analyze_create_analyses("r1")
    \/ api_analyze_create_analyses_fails("r1")

SpecBulk == Init /\ [][NextBulk]_vars

\* the step ends request r's call of create_ticket_analyses
EndsCreateAnalyses(r) == req[r].pc = "create_analyses" /\ req'[r].pc = "idle"

\* C18: a call of create_tickets or create_ticket_analyses leaves the rows that
\* were stored as they were and adds either every row of the call, when it
\* succeeds, or no row, when it fails; never some of the rows.
C18_BulkInsertAllOrNothing ==
    [][ /\ tickets' # tickets =>
             /\ ret'.handler = "post_tickets" /\ ret'.status = 201
             /\ tickets' = tickets \o ret'.tickets
             /\ Len(ret'.tickets) = Len(ret'.request)
             /\ \A k \in 1..Len(ret'.request) :
                  /\ ret'.tickets[k].title = ret'.request[k].title
                  /\ ret'.tickets[k].description = ret'.request[k].description
        /\ (ret'.handler = "post_tickets" /\ ret'.status # 201) => tickets' = tickets
        /\ \A r \in Requests : EndsCreateAnalyses(r) =>
             IF ret'.status = 201
             THEN /\ Len(ticket_analysis') = Len(ticket_analysis) + Len(req[r].tickets)
                  /\ \A k \in 1..Len(ticket_analysis') :
                       IF k <= Len(ticket_analysis)
                       THEN ticket_analysis'[k] = ticket_analysis[k]
                       ELSE /\ ticket_analysis'[k].ticket_id
                                 = req[r].tickets[k - Len(ticket_analysis)].id
                            /\ ticket_analysis'[k].analysis_run_id = req[r].analysis_run
             ELSE ticket_analysis' = ticket_analysis
        /\ ticket_analysis' # ticket_analysis => \E r \in Requests : EndsCreateAnalyses(r)
      ]_vars

\* one call stored two tickets and one call stored the two analyses of a run
C18_Witness ==
    /\ Len(tickets) = 2
    /\ tickets[1].created_at = tickets[2].created_at
    /\ ret.handler = "analyze" /\ ret.status = 201
    /\ Len(ret.ticket_analyses) = 2
    /\ Len(ticket_analysis) = 2

\* a call of create_tickets with two tickets failed and stored nothing
C18_WitnessFailedTickets ==
    /\ ret.handler = "post_tickets" /\ ret.status = 500
    /\ Len(ret.request) = 2
    /\ tickets = <<>>

\* a call of create_ticket_analyses with two records failed and stored nothing
C18_WitnessFailedAnalyses ==
    /\ ret.handler = "analyze" /\ ret.status = 500
    /\ Len(ret.tickets) = 2 /\ ret.analysis_run # 0
    /\ ticket_analysis = <<>>

(***************************************************************************)
(* The graph with a text-generation service that may leave a call          *)
(* unanswered; graph.invoke runs its nodes as long as one can take a step  *)
(***************************************************************************)

NextAgentLive ==
    \/ analyze_tickets_loop(AgentReplies)
    \/ llm_invoke_never_returns
    \/ analyze_tickets_node_return
    \/ generate_summary_node

SpecAgentLive == InitAgent /\ [][NextAgentLive]_vars /\ WF_vars(NextAgentLive)

\* C19: every run eventually completes, with a result for every ticket and a
\* summary, also when the call for some ticket never returns (a per-call timeout
\* cuts it off and the heuristic classifies that ticket).
C19_RunCompletes ==
    <>( /\ node = "END"
        /\ Len(state.analysis_results) = Len(state.tickets) )

(***************************************************************************)
(* The repository operations that write, called directly                   *)
(***************************************************************************)

NextWrites ==
    \/ repo_create_tickets
    \/ repo_create_analysis_run
    \/ repo_create_ticket_analyses
    \/ repo_update_analysis_run_summary

SpecWrites == Init /\ [][NextWrites]_vars

\* the run ids in the table
RunIds == {analysis_runs[k].id : k \in 1..Len(analysis_runs)}

\* C20: update_analysis_run_summary leaves every Ticket and TicketAnalysis row
\* unchanged; with a run id that does not exist it returns nothing and leaves
\* every AnalysisRun row unchanged; with a run id that exists it returns that
\* run and changes only the summary of that run, to the summary given.
C20_UpdateTouchesOneSummary ==
    [][ ret'.handler = "update_analysis_run_summary" =>
          /\ tickets' = tickets
          /\ ticket_analysis' = ticket_analysis
          /\ Len(analysis_runs') = Len(analysis_runs)
          /\ IF ret'.run_id \notin RunIds
             THEN ret'.rows = <<>> /\ analysis_runs' = analysis_runs
             ELSE /\ Len(ret'.rows) = 1
                  /\ ret'.rows[1].id = ret'.run_id
                  /\ \A k \in 1..Len(analysis_runs) :
                       IF analysis_runs[k].id = ret'.run_id
                       THEN /\ analysis_runs'[k] = ret'.rows[1]
                            /\ analysis_runs'[k]
                                 = [analysis_runs[k] EXCEPT !.summary = ret'.rows[1].summary]
                       ELSE analysis_runs'[k] = analysis_runs[k]
      ]_vars

\* beside a ticket and its analysis, run 2 of two runs was given a summary and
\* run 1 has none
C20_Witness ==
    /\ ret.handler = "update_analysis_run_summary"
    /\ ret.run_id = 2
    /\ Len(analysis_runs) = 2
    /\ analysis_runs[1].summary = None
    /\ analysis_runs[2].summary = "B"
    /\ tickets # <<>> /\ ticket_analysis # <<>>

\* the call was made with the id of no run, beside two runs
C20_WitnessNoSuchRun ==
    /\ ret.handler = "update_analysis_run_summary"
    /\ ret.run_id = 3
    /\ ret.rows = <<>>
    /\ Len(analysis_runs) = 2

(***************************************************************************)
(* Two callers of the repository that each insert a list of tickets, keep  *)
(* the rows create_tickets returned, and later fetch them by their ids     *)
(***************************************************************************)

\* lists of ticket records, of up to MaxPosted records
RoundTripData == UNION { [1..n -> StoreTexts] : n \in 0..MaxPosted }

\* caller r: created = crud.create_tickets(db, tickets_data)
round_trip_create_tickets(r) ==
    /\ req[r].pc = "idle"
    /\ \E data \in RoundTripData :
         /\ Len(tickets) + Len(data) <= MaxPosted + 1
         /\ tickets' = create_tickets(tickets, data, now)
         /\ LET created == SubSeq(tickets', Len(tickets) + 1, Len(tickets'))
            IN  /\ req' = [req EXCEPT ![r] = [Idle EXCEPT !.pc = "created", !.tickets = created]]
                /\ ret' = [handler |-> "round_trip_create", tickets_data |-> data,
                           rows |-> created]
    /\ UNCHANGED <<agentVars, analysis_runs, ticket_analysis, now>>

\* caller r: crud.get_tickets_by_ids(db, [t.id for t in created])
round_trip_get_tickets_by_ids(r) ==
    /\ req[r].pc = "created"
    /\ LET ticket_ids == [k \in 1..Len(req[r].tickets) |-> req[r].tickets[k].id]
       IN  \E rows \in ScanOrders(get_tickets_by_ids(tickets, ticket_ids)) :
             ret' = [handler |-> "round_trip_get", created |-> req[r].tickets, rows |-> rows]
    /\ req' = [req EXCEPT ![r] = Idle]
    /\ UNCHANGED <<agentVars, storeVars>>

NextRoundTrip ==
    \/ Tick
    \/ \E r \in Requests : round_trip_create_tickets(r)
    \/ \E r \in Requests : round_trip_get_tickets_by_ids(r)

SpecRoundTrip == Init /\ [][NextRoundTrip]_vars

\* the rows of a result, as a set
RowSet(rows) == {rows[k] : k \in 1..Len(rows)}

\* C21: create_tickets on N records returns N tickets, the k-th with the title
\* and description of the k-th record, with pairwise distinct ids; and
\* get_tickets_by_ids on the ids returned yields exactly those N tickets with the
\* title, description and created_at returned, whatever was inserted in between.
C21_InsertThenFetchRoundTrip ==
    /\ ret.handler = "round_trip_create" =>
         /\ Len(ret.rows) = Len(ret.tickets_data)
         /\ \A k \in 1..Len(ret.rows) :
              /\ ret.rows[k].title = ret.tickets_data[k].title
              /\ ret.rows[k].description = ret.tickets_data[k].description
         /\ \A j, k \in 1..Len(ret.rows) : ret.rows[j].id = ret.rows[k].id => j = k
    /\ ret.handler = "round_trip_get" =>
         /\ Len(ret.rows) = Len(ret.created)
         /\ RowSet(ret.rows) = RowSet(ret.created)

\* two tickets inserted by one call were fetched back after another caller's
\* insert, at a later time, came in between
C21_Witness ==
    /\ ret.handler = "round_trip_get"
    /\ Len(ret.created) = 2
    /\ Len(ret.rows) = 2
    /\ Len(tickets) = 3
    /\ tickets[3].id \notin IdsOf(ret.created)
    /\ tickets[3].created_at > ret.created[1].created_at

\* the tickets the classifier has been invoked for, in the order of invocation
\* (each invocation adds its entry to analysis_results)
Classified == [k \in 1..Len(analysis_results) |-> analysis_results[k].ticket_id]

\* the tickets the text-generation service has been called for, in order
Called == [k \in 1..Len(llm_calls) |-> llm_calls[k].ticket_id]

\* the ids of the first n input tickets, in input order
InputIds(n) == [k \in 1..n |-> state.tickets[k].id]

\* C22: during a run the classifier has been invoked once for each of the first
\* `it` input tickets, in input order, and for all of them when the loop is done;
\* the text-generation service has been called once for each ticket classified
\* when the credential is set (whether or not the call failed) and never when it
\* is absent.
C22_OneInvocationPerTicket ==
    /\ it <= Len(state.tickets)
    /\ Classified = InputIds(it)
    /\ node \in {"generate_summary", "END"} => it = Len(state.tickets)
    /\ Called = IF Truthy(OPENAI_API_KEY) THEN InputIds(it) ELSE <<>>

\* a run of three tickets ended in which the call for the second ticket failed:
\* three calls were made, one per ticket
C22_Witness ==
    /\ node = "END"
    /\ Len(state.tickets) = 3
    /\ Len(llm_calls) = 3
    /\ llm_calls[2].reply = Raises
    /\ llm_calls[3].ticket_id = state.tickets[3].id
    /\ Len(state.analysis_results) = 3

\* a run of two tickets ended without the credential and without a call
C22_WitnessNoCredential ==
    /\ node = "END"
    /\ ~Truthy(OPENAI_API_KEY)
    /\ Len(state.analysis_results) = 2
    /\ llm_calls = <<>>

\* the stored tickets whose id is in the list
Matching(ticket_ids) == {id \in IdsOf(tickets) : InList(id, ticket_ids)}

\* C23: a POST /api/analyze request with a non-empty ticketIds list goes on to
\* create its run only if the number of stored tickets matching the list equals
\* the length of the list, and is otherwise answered 404 without a change to
\* the store; so a list that repeats an id is answered 404 although every id in
\* it exists.
C23_ListLengthMustMatch ==
    [][ /\ \A r \in Requests :
             ( /\ req[r].pc = "idle" /\ req'[r].pc = "create_run"
               /\ ids_given(req'[r].request) ) =>
                 Cardinality(Matching(req'[r].request.ticket_ids))
                   = Len(req'[r].request.ticket_ids)
        /\ ( /\ ret'.handler = "analyze" /\ ret'.status \in {400, 404}
             /\ ids_given(ret'.request) ) =>
               /\ ret'.status = 404
               /\ Cardinality(Matching(ret'.request.ticket_ids)) # Len(ret'.request.ticket_ids)
               /\ tickets' = tickets
               /\ analysis_runs' = analysis_runs
               /\ ticket_analysis' = ticket_analysis
      ]_vars

\* the request naming the stored ticket 1 twice was answered 404, and the store
\* holds no run and no analysis
C23_Witness ==
    /\ ret.handler = "analyze"
    /\ ret.status = 404
    /\ ret.request.ticket_ids = <<1, 1>>
    /\ 1 \in IdsOf(tickets)
    /\ analysis_runs = <<>> /\ ticket_analysis = <<>>

\* C24: the summarization stage is entered only from the classification stage
\* and only with a result for every ticket of the batch; the summary is written
\* by one step only, the step that ends the run, and is the summary function of
\* the classification stage's result sequence alone; nothing runs after the end.
C24_SummaryAfterAllClassified ==
    [][ /\ node' = "generate_summary" =>
             /\ node = "analyze_tickets"
             /\ Len(state'.analysis_results) = Len(state.tickets)
             /\ state'.analysis_results = analysis_results
        /\ state'.summary # state.summary =>
             /\ node = "generate_summary" /\ node' = "END"
        /\ node' = "END" =>
             /\ node = "generate_summary"
             /\ state'.analysis_results = state.analysis_results
             /\ Len(state.analysis_results) = Len(state.tickets)
             /\ state'.summary = generate_summary(state.analysis_results)
             /\ state'.summary # state.summary
        /\ node # "END"
      ]_vars

\* a run of three tickets ended with the summary of its three results
C24_Witness ==
    /\ node = "END"
    /\ Len(state.tickets) = 3
    /\ Len(state.analysis_results) = 3
    /\ state.summary = generate_summary(state.analysis_results)
    /\ state.summary # ""

\* the different values of a sequence, in the order of their first occurrence
RECURSIVE FirstOccurrences(_, _)
FirstOccurrences(seq, seen) ==
    IF seq = <<>> THEN <<>>
    ELSE IF Head(seq) \in seen THEN FirstOccurrences(Tail(seq), seen)
    ELSE <<Head(seq)>> \o FirstOccurrences(Tail(seq), seen \cup {Head(seq)})

\* how many entries of the sequence are v
Occurrences(seq, v) == Cardinality({k \in 1..Len(seq) : seq[k] = v})

\* "v1(n1), v2(n2), ..." for the values listed, counted in seq
RECURSIVE Listing(_, _)
Listing(values, seq) ==
    IF values = <<>> THEN ""
    ELSE Head(values) \o "(" \o ToString(Occurrences(seq, Head(values))) \o ")"
         \o (IF Len(values) > 1 THEN ", " \o Listing(Tail(values), seq) ELSE "")

RECURSIVE SumOccurrences(_, _)
SumOccurrences(values, seq) ==
    IF values = <<>> THEN 0
    ELSE Occurrences(seq, Head(values)) + SumOccurrences(Tail(values), seq)

CategoriesOf(results) == [k \in 1..Len(results) |-> results[k].category]
PrioritiesOf(results) == [k \in 1..Len(results) |-> results[k].priority]

\* the summary of N results up to the attention clause, as the claim words it
CountsText(results) ==
    "Analyzed " \o ToString(Len(results)) \o " ticket(s). Categories: "
    \o Listing(FirstOccurrences(CategoriesOf(results), {}), CategoriesOf(results))
    \o ". Priorities: "
    \o Listing(FirstOccurrences(PrioritiesOf(results), {}), PrioritiesOf(results))
    \o "."

\* C25: the summary of N >= 1 results states N as the total, then lists every
\* category that occurs, once, with the number of results that have it, in order
\* of first occurrence, then the priorities likewise; the counts of each list sum
\* to N. Nothing follows but the attention clause.
C25_CountsInFirstOccurrenceOrder ==
    (node = "END" /\ state.analysis_results # <<>>) =>
        LET results == state.analysis_results
            cats    == CategoriesOf(results)
            prios   == PrioritiesOf(results)
        IN  /\ \/ state.summary = CountsText(results)
               \/ state.summary = CountsText(results) \o AttentionClause(UrgentCount(results))
            /\ SumOccurrences(FirstOccurrences(cats, {}), cats) = Len(results)
            /\ SumOccurrences(FirstOccurrences(prios, {}), prios) = Len(results)

\* three results with categories other, bug, other were summarized: other is
\* listed first, with 2, although bug sorts before it
C25_Witness ==
    /\ node = "END"
    /\ Len(state.analysis_results) = 3
    /\ CategoriesOf(state.analysis_results) = <<"other", "bug", "other">>
    /\ Contains(state.summary, "Analyzed 3 ticket(s). Categories: other(2), bug(1).")

\* the request carries ticketIds: []
EmptyList(request) == request.given /\ request.ticket_ids = <<>>

\* what a request with ticketIds omitted resolves to on the store as it is
OmittedResolvesTo == {get_tickets(rows, 0, AnalyzeLimit) : rows \in ScanOrders(tickets)}

\* C26: a POST /api/analyze request with ticketIds [] resolves as a request with
\* ticketIds omitted does, to the first up to 1000 stored tickets (all of them
\* when there are no more than 1000), and is rejected only when no ticket is
\* stored, with 400.
C26_EmptyListIsOmitted ==
    [][ /\ \A r \in Requests :
             ( /\ req[r].pc = "idle" /\ req'[r].pc = "create_run"
               /\ EmptyList(req'[r].request) ) =>
                 /\ tickets # <<>>
                 /\ req'[r].tickets \in OmittedResolvesTo
                 /\ Len(req'[r].tickets) = Min(Len(tickets), AnalyzeLimit)
                 /\ Len(tickets) <= AnalyzeLimit => IdsOf(req'[r].tickets) = IdsOf(tickets)
        /\ ( /\ ret'.handler = "analyze" /\ ret'.status \in {400, 404}
             /\ EmptyList(ret'.request) ) =>
               /\ ret'.status = 400
               /\ tickets = <<>>
      ]_vars

\* a request with ticketIds [] was answered 201 with an analysis of the stored
\* ticket
C26_Witness ==
    /\ ret.handler = "analyze"
    /\ ret.status = 201
    /\ EmptyList(ret.request)
    /\ tickets # <<>>
    /\ IdsOf(ret.tickets) = IdsOf(tickets)

\* a request with ticketIds [] was answered 400 on the empty store
C26_Witness400 ==
    /\ ret.handler = "analyze"
    /\ ret.status = 400
    /\ EmptyList(ret.request)
    /\ tickets = <<>>

====
